---- MODULE Spec2Model ----
(***************************************************************************)
(* A model of PhysicSolver (src/physics/physics.cpp): the sub-stepped      *)
(* update loop, the box constraint, the counting-sort spatial hash, the    *)
(* fixed-grid broad phase and the pairwise circle-circle resolution.       *)
(*                                                                         *)
(* Numbers.  The program computes in 32-bit floats.  The model computes in *)
(* integers: a length or coordinate is a whole number of position quanta,  *)
(* a time is a whole number of hundredths of a second, and the restitution *)
(* coefficients are whole hundredths.  An expression is evaluated exactly  *)
(* and its result is rounded toward zero to the quantum (Quot), which is   *)
(* the model's counterpart of float rounding.  A float that holds NaN is   *)
(* modelled by the particle's nan flag.                                    *)
(***************************************************************************)
EXTENDS Integers, Sequences, FiniteSets, TLC

VARIABLES
    screen_size,        \* PhysicSolver::screen_size
    cell_width,         \* PhysicSolver::cell_width
    cell_count_x,       \* PhysicSolver::cell_count_x
    cell_count_y,       \* PhysicSolver::cell_count_y
    particles,          \* PhysicSolver::particles, a sequence of particle records
    grid,               \* PhysicSolver::grid, cell index -> sequence of particle indices
    count_arr,          \* count_arr of solveParticleCollisionsSpatialHash
    particles_grouped,  \* particles_grouped of solveParticleCollisionsSpatialHash
    positions_ssbo,     \* the position buffer bound at slot 0
    lanes,              \* kernel lanes dispatched and not yet finished
    pc,                 \* position of the running operation
    i,                  \* loop counter of update
    dt,                 \* argument of the running update
    step_dt,            \* step_dt of update
    updates,            \* update calls made so far
    log,                \* history: the phases run by the current update call
    before,             \* history: the particles before the last operation
    calls               \* history: the collideTwoParticles calls made, as index pairs

vars == <<screen_size, cell_width, cell_count_x, cell_count_y, particles, grid,
          count_arr, particles_grouped, positions_ssbo, lanes, pc, i, dt,
          step_dt, updates, log, before, calls>>

solverVars == <<screen_size, cell_width, cell_count_x, cell_count_y>>
hashVars == <<count_arr, particles_grouped>>
kernelVars == <<positions_ssbo, lanes>>
loopVars == <<i, dt, step_dt, updates>>
histVars == <<log, before, calls>>

----------------------------------------------------------------------------
(* Arithmetic *)

Abs(a) == IF a < 0 THEN -a ELSE a

\* a / b rounded toward zero, b > 0: a float quotient cut to the quantum, and
\* the value of an (int32_t) or (uint32_t) cast of a non-negative quotient.
Quot(a, b) == IF a >= 0 THEN a \div b ELSE -((-a) \div b)

\* std::ceil(a / b), b > 0
Ceil(a, b) == -((-a) \div b)

\* floor of the square root
ISqrt(n) == CHOOSE k \in 0..n : k * k <= n /\ (k + 1) * (k + 1) > n

Vec(a, b) == [x |-> a, y |-> b]

\* glm::length, cut to the quantum
Length(v) == ISqrt(v.x * v.x + v.y * v.y)

----------------------------------------------------------------------------
(* Program constants *)

\* A solver built with half the sub-steps
sub_steps_halved == 8 \div 2

\* sub_steps(8) in the constructor's initialiser list
sub_steps == 8

\* const float g = 2000.0f in applyGravity
g == 2000

\* const float e = 0.25f in constrainParticlesToBoxContainer, in hundredths
e_box == 25

\* const float e = 0.75f in collideTwoParticles, in hundredths
e_collide == 75

----------------------------------------------------------------------------
(* Bounds of the model *)

MaxParticles == 2
MaxUpdates == 1
MaxCoord == 6

----------------------------------------------------------------------------
(* Containers.  std::vector is a function on 0..size-1. *)

Size(f) == Cardinality(DOMAIN f)

EmptyVec == [k \in {} |-> 0]

\* std::vector(n): n value-initialised elements
ZeroVec(n) == [k \in 0..(n - 1) |-> 0]

\* emplace_back / push_back
PushBack(f, v) == [k \in 0..Size(f) |-> IF k < Size(f) THEN f[k] ELSE v]

----------------------------------------------------------------------------
(* Particle *)

\* Particle(pos, radius): at rest at pos, no force accumulated
NewParticle(pos, radius) ==
    [pos |-> pos, prev_pos |-> pos, force |-> Vec(0, 0), radius |-> radius,
     nan |-> FALSE]

\* Particle::update(dt): the Verlet step.  dt is in hundredths of a second,
\* so force * dt^2 is divided by 100^2.
ParticleUpdate(p, t) ==
    [p EXCEPT !.pos = Vec(p.pos.x + (p.pos.x - p.prev_pos.x)
                              + Quot(p.force.x * t * t, 100 * 100),
                          p.pos.y + (p.pos.y - p.prev_pos.y)
                              + Quot(p.force.y * t * t, 100 * 100)),
              !.prev_pos = p.pos,
              !.force = Vec(0, 0)]

----------------------------------------------------------------------------
(* PhysicSolver::PhysicSolver *)

\* The values a float-to-integer conversion of an infinity or a NaN can
\* yield (the conversion is undefined): the most negative integer, 0 or the
\* most positive integer.  The two extremes are stood for by -2^15 and 2^15,
\* whose products stay inside TLC's integers.
UndefinedCast == {-32768, 0, 32768}

\* The cell counts the constructor can store for one screen dimension:
\* std::ceil(dim / cell_width) converted to an integer.
CellCounts(dim, cw) ==
    IF cw > 0 THEN {Ceil(dim, cw)}
    ELSE IF cw < 0 THEN {-((dim) \div (-cw))}
    ELSE UndefinedCast

\* grid.resize(n): n empty cells (none when n <= 0)
EmptyGrid(n) == [c \in 0..(n - 1) |-> <<>>]

----------------------------------------------------------------------------
(* PhysicSolver::applyGravity, updateParticles *)

ApplyGravityTo(p) == [p EXCEPT !.force = Vec(p.force.x, p.force.y - g)]

ApplyGravityAll(ps) == [k \in DOMAIN ps |-> ApplyGravityTo(ps[k])]

UpdateParticlesAll(ps, t) == [k \in DOMAIN ps |-> ParticleUpdate(ps[k], t)]

----------------------------------------------------------------------------
(* PhysicSolver::constrainParticlesToBoxContainer *)

\* e * v
MulE(v) == Quot(v * e_box, 100)

\* The loop body with the restitution left out of the previous coordinate
ConstrainAxisElastic(c, q, radius, box_lo, box_hi) ==
    IF c + radius > box_hi
    THEN LET n == c - 2 * (c + radius - box_hi)
         IN  <<n, n + (c - q)>>
    ELSE IF c - radius < box_lo
    THEN LET n == c + 2 * (box_lo - (c - radius))
         IN  <<n, n - (q - c)>>
    ELSE <<c, q>>

\* One axis of the loop body: c is the coordinate, q the previous one.
\* Returns <<new coordinate, new previous coordinate>>.
ConstrainAxis(c, q, radius, box_lo, box_hi) ==
    IF c + radius > box_hi
    THEN LET original_displacement == c - q
             n == c - 2 * (c + radius - box_hi)
         IN  <<n, n + MulE(original_displacement)>>
    ELSE IF c - radius < box_lo
    THEN LET original_displacement == q - c
             n == c + 2 * (box_lo - (c - radius))
         IN  <<n, n - MulE(original_displacement)>>
    ELSE <<c, q>>

\* The box edges.  center2 is twice the centre, so that halving is exact.
BoxLo(size, center2) == (center2 - size) \div 2
BoxHi(size, center2) == (center2 + size) \div 2

ConstrainParticle(p, size, center2) ==
    LET ax == ConstrainAxis(p.pos.x, p.prev_pos.x, p.radius,
                            BoxLo(size.x, center2.x), BoxHi(size.x, center2.x))
        ay == ConstrainAxis(p.pos.y, p.prev_pos.y, p.radius,
                            BoxLo(size.y, center2.y), BoxHi(size.y, center2.y))
    IN  [p EXCEPT !.pos = Vec(ax[1], ay[1]), !.prev_pos = Vec(ax[2], ay[2])]

ConstrainAll(ps, size, center2) ==
    [k \in DOMAIN ps |-> ConstrainParticle(ps[k], size, center2)]

----------------------------------------------------------------------------
(* PhysicSolver::collideTwoParticles *)

\* massRatio * delta * n, one component: other is the other particle's radius,
\* comp the component of the collision axis, d the distance (d > 0).
Displacement(other, massSum, sumOfRadii, d, comp) ==
    Quot(other * e_collide * (sumOfRadii - d) * comp, massSum * 100 * d)

\* distanceBetweenCenters < sumOfRadii; a comparison with NaN is false
Overlapping(p1, p2) ==
    /\ ~p1.nan
    /\ ~p2.nan
    /\ Length(Vec(p1.pos.x - p2.pos.x, p1.pos.y - p2.pos.y)) < p1.radius + p2.radius

\* The resolution with each particle given its own mass ratio, not the other's
CollideTwoParticlesOwnRatio(ps, p1_i, p2_i) ==
    IF p1_i = p2_i THEN ps
    ELSE
    LET p1 == ps[p1_i]
        p2 == ps[p2_i]
        collisionAxis == Vec(p1.pos.x - p2.pos.x, p1.pos.y - p2.pos.y)
        distanceBetweenCenters == Length(collisionAxis)
        sumOfRadii == p1.radius + p2.radius
    IN  IF ~Overlapping(p1, p2) THEN ps
        ELSE IF distanceBetweenCenters = 0
        THEN [ps EXCEPT ![p1_i].nan = TRUE, ![p2_i].nan = TRUE]
        ELSE [ps EXCEPT
                ![p1_i].pos = Vec(p1.pos.x + Displacement(p1.radius, sumOfRadii,
                                      sumOfRadii, distanceBetweenCenters,
                                      collisionAxis.x),
                                  p1.pos.y + Displacement(p1.radius, sumOfRadii,
                                      sumOfRadii, distanceBetweenCenters,
                                      collisionAxis.y)),
                ![p2_i].pos = Vec(p2.pos.x - Displacement(p2.radius, sumOfRadii,
                                      sumOfRadii, distanceBetweenCenters,
                                      collisionAxis.x),
                                  p2.pos.y - Displacement(p2.radius, sumOfRadii,
                                      sumOfRadii, distanceBetweenCenters,
                                      collisionAxis.y))]

CollideTwoParticles(ps, p1_i, p2_i) ==
    IF p1_i = p2_i THEN ps
    ELSE
    LET p1 == ps[p1_i]
        p2 == ps[p2_i]
        collisionAxis == Vec(p1.pos.x - p2.pos.x, p1.pos.y - p2.pos.y)
        distanceBetweenCenters == Length(collisionAxis)
        sumOfRadii == p1.radius + p2.radius
        massSum == p1.radius + p2.radius
    IN  IF ~Overlapping(p1, p2) THEN ps
        ELSE IF distanceBetweenCenters = 0
        THEN \* n = collisionAxis / 0 is NaN in both components
             [ps EXCEPT ![p1_i].nan = TRUE, ![p2_i].nan = TRUE]
        ELSE [ps EXCEPT
                ![p1_i].pos = Vec(p1.pos.x + Displacement(p2.radius, massSum,
                                      sumOfRadii, distanceBetweenCenters,
                                      collisionAxis.x),
                                  p1.pos.y + Displacement(p2.radius, massSum,
                                      sumOfRadii, distanceBetweenCenters,
                                      collisionAxis.y)),
                ![p2_i].pos = Vec(p2.pos.x - Displacement(p1.radius, massSum,
                                      sumOfRadii, distanceBetweenCenters,
                                      collisionAxis.x),
                                  p2.pos.y - Displacement(p1.radius, massSum,
                                      sumOfRadii, distanceBetweenCenters,
                                      collisionAxis.y))]

----------------------------------------------------------------------------
(* PhysicSolver::solveParticleCollisionsSpatialHash: the hash build *)

\* (int32_t)(p.pos.x / cell_width), cell_y * cell_count_x + cell_x
CellX(p, cw) == Quot(p.pos.x, cw)
CellY(p, cw) == Quot(p.pos.y, cw)
CellIndex(p, cw, ccx) == CellY(p, cw) * ccx + CellX(p, cw)

\* count_arr[h] is an element of the vector
InCountArr(h, arr) == h \in DOMAIN arr

\* Every index the build uses is inside count_arr
HashInBounds(ps, cw, ccx, arr) ==
    \A k \in DOMAIN ps : InCountArr(CellIndex(ps[k], cw, ccx), arr)

\* "Populate cell counts": particles k, k+1, ... in order.  An index outside
\* the vector is undefined behaviour; where the run goes on, that write has
\* landed outside the vector and left it as it was.
RECURSIVE CountPass(_, _, _, _, _)
CountPass(ps, k, cw, ccx, arr) ==
    IF k >= Size(ps) THEN arr
    ELSE LET h == CellIndex(ps[k], cw, ccx)
         IN  CountPass(ps, k + 1, cw, ccx,
                 IF InCountArr(h, arr) THEN [arr EXCEPT ![h] = @ + 1] ELSE arr)

\* "Compute partial sums": for (i = 1; i < size; i++) arr[i] += arr[i - 1]
RECURSIVE PartialSums(_, _)
PartialSums(arr, k) ==
    IF k >= Size(arr) THEN arr
    ELSE PartialSums([arr EXCEPT ![k] = @ + arr[k - 1]], k + 1)

\* "Assign to grouped particle array": st = [count, grouped]
RECURSIVE Scatter(_, _, _, _, _)
Scatter(ps, k, cw, ccx, st) ==
    IF k >= Size(ps) THEN st
    ELSE LET h == CellIndex(ps[k], cw, ccx)
         IN  Scatter(ps, k + 1, cw, ccx,
                 IF InCountArr(h, st.count)
                 THEN [count |-> [st.count EXCEPT ![h] = @ - 1],
                       grouped |-> [st.grouped EXCEPT ![st.count[h] - 1] = k]]
                 ELSE st)

\* The three passes: [count, grouped]
BuildHash(ps, cw, ccx, ccy) ==
    LET counted == CountPass(ps, 0, cw, ccx, ZeroVec(ccx * ccy + 1))
        summed == PartialSums(counted, 1)
    IN  Scatter(ps, 0, cw, ccx, [count |-> summed, grouped |-> ZeroVec(Size(ps))])

----------------------------------------------------------------------------
(* The collision kernel (renderer/shaders/solve_collisions.cs.glsl), one    *)
(* lane per particle: it scans the 3x3 cells around its particle and writes *)
(* only its own particle's position.                                        *)

\* The members of bucket h: grouped slots [count[h], count[h + 1])
Bucket(h, count, grouped) ==
    [k \in 1..(count[h + 1] - count[h]) |-> grouped[count[h] + k - 1]]

\* The cells of the 3x3 block around (cx, cy) that lie in the grid, row by row
Neighbours(cx, cy, ccx, ccy) ==
    LET all == [k \in 1..9 |-> <<cx + ((k - 1) % 3) - 1, cy + ((k - 1) \div 3) - 1>>]
    IN  SelectSeq(all, LAMBDA c : c[1] >= 0 /\ c[1] < ccx /\ c[2] >= 0 /\ c[2] < ccy)

RECURSIVE Flatten(_)
Flatten(ss) == IF ss = <<>> THEN <<>> ELSE Head(ss) \o Flatten(Tail(ss))

\* The candidates lane k examines, in order
Candidates(buf, k, cw, ccx, ccy, count, grouped) ==
    LET cells == Neighbours(Quot(buf[k].x, cw), Quot(buf[k].y, cw), ccx, ccy)
    IN  Flatten([c \in 1..Len(cells) |->
                    Bucket(cells[c][2] * ccx + cells[c][1], count, grouped)])

\* Lane k's own share of the resolution against particle j: the pair is
\* skipped when the centres coincide.
LaneResolve(own, other, r_own, r_other) ==
    LET axis == Vec(own.x - other.x, own.y - other.y)
        d == Length(axis)
        sumR == r_own + r_other
    IN  IF d < sumR /\ d > 0
        THEN Vec(own.x + Displacement(r_other, sumR, sumR, d, axis.x),
                 own.y + Displacement(r_other, sumR, sumR, d, axis.y))
        ELSE own

RECURSIVE LaneScan(_, _, _, _, _, _)
LaneScan(own, buf, ps, k, cands, n) ==
    IF n > Len(cands) THEN own
    ELSE LET j == cands[n]
         IN  LaneScan(IF j = k THEN own
                      ELSE LaneResolve(own, buf[j], ps[k].radius, ps[j].radius),
                      buf, ps, k, cands, n + 1)

\* The buffer after lane k has run on it
LaneRun(buf, ps, k, cw, ccx, ccy, count, grouped) ==
    [buf EXCEPT ![k] = LaneScan(buf[k], buf, ps, k,
                           Candidates(buf, k, cw, ccx, ccy, count, grouped), 1)]

----------------------------------------------------------------------------
(* The fixed-grid strategy *)

\* uint32_t values are kept as their representatives in -2^31..2^31-1: a
\* negative v stands for v + 2^32, sums and products are those of the
\* representatives, and v + 2^32 is larger than every count and size.
\* (uint32_t)v for a float v already cut to an integer: a negative v is
\* undefined; builds give v + 2^32 or 0.
UintCast(v) == IF v >= 0 THEN {v} ELSE {v, 0}

\* u < n for a uint32_t u and a count n
U32Less(u, n) == u >= 0 /\ u < n

\* The cells the loop body of assignParticlesToFixedGrid pushes p_i to, in
\* order, for the casts' values cell_x and cell_y
CellsOf(p, cell_x, cell_y, cw, ccx, ccy) ==
    LET in_north == /\ U32Less(cell_y + 1, ccy)
                    /\ p.pos.y + p.radius >= cw * (cell_y + 1)
        in_east  == /\ U32Less(cell_x + 1, ccx)
                    /\ p.pos.x + p.radius >= cw * (cell_x + 1)
    IN  <<cell_y * ccx + cell_x>>
        \o (IF in_north THEN <<(cell_y + 1) * ccx + cell_x>> ELSE <<>>)
        \o (IF in_north /\ in_east
            THEN <<(cell_y + 1) * ccx + cell_x + 1>> ELSE <<>>)
        \o (IF in_east THEN <<cell_y * ccx + cell_x + 1>> ELSE <<>>)

RECURSIVE PushAll(_, _, _, _)
PushAll(gr, cells, n, p_i) ==
    IF n > Len(cells) THEN gr
    ELSE PushAll([gr EXCEPT ![cells[n]] = Append(@, p_i)], cells, n + 1, p_i)

\* The pairs the two inner loops of solveGridCollisionsInRange visit in a cell
CellPairs(cell) ==
    LET n == Len(cell)
        row(a) == [b \in 1..(n - a) |-> <<cell[a], cell[a + b]>>]
    IN  Flatten([a \in 1..n |-> row(a)])

\* st = [ps, calls]: one collideTwoParticles call, logged with its arguments
CollideLogged(st, pair) ==
    [ps |-> CollideTwoParticles(st.ps, pair[1], pair[2]),
     calls |-> Append(st.calls, pair)]

RECURSIVE CollidePairs(_, _, _)
CollidePairs(st, pairs, n) ==
    IF n > Len(pairs) THEN st
    ELSE CollidePairs(CollideLogged(st, pairs[n]), pairs, n + 1)

\* The cells y_start..y_end-1, x_start..x_end-1 in loop order
RangeCells(x_start, x_end, y_start, y_end, ccx) ==
    Flatten([r \in 1..(y_end - y_start) |->
                [c \in 1..(x_end - x_start) |->
                    (y_start + r - 1) * ccx + (x_start + c - 1)]])

RECURSIVE SolveCells(_, _, _, _)
SolveCells(st, gr, cells, n) ==
    IF n > Len(cells) THEN st
    ELSE SolveCells(CollidePairs(st, CellPairs(gr[cells[n]]), 1), gr, cells, n + 1)

----------------------------------------------------------------------------
(* The solver as update() drives it *)

\* The solvers PhysicSolver(_screen_size, _largest_particle_radius) can
\* leave behind, as [screen_size, cell_width, cell_count_x, cell_count_y]
Constructed(_screen_size, _largest_particle_radius) ==
    LET cw == 2 * _largest_particle_radius
    IN  {[screen_size |-> _screen_size, cell_width |-> cw,
          cell_count_x |-> nx, cell_count_y |-> ny] :
            nx \in CellCounts(_screen_size.x, cw),
            ny \in CellCounts(_screen_size.y, cw)}

\* What the history variables hold when nothing has run
NoHistory ==
    /\ log = <<>>
    /\ before = EmptyVec
    /\ calls = <<>>

\* What the transient structures hold outside a collision pass
NoTransients ==
    /\ count_arr = EmptyVec
    /\ particles_grouped = EmptyVec
    /\ positions_ssbo = EmptyVec
    /\ lanes = {}
    /\ i = 0
    /\ dt = 0
    /\ step_dt = 0
    /\ updates = 0

\* The arguments the model passes
SpawnPositions ==
    {Vec(5, 3), Vec(6, 3), Vec(7, 6), Vec(30, 3)}
SpawnRadii == {1, 2}
DtChoices == {24, 40}

\* A 12 x 12 screen, largest particle radius 2, no particles
Init ==
    /\ \E sv \in Constructed(Vec(12, 12), 2) :
          /\ screen_size = sv.screen_size
          /\ cell_width = sv.cell_width
          /\ cell_count_x = sv.cell_count_x
          /\ cell_count_y = sv.cell_count_y
          /\ grid = EmptyGrid(sv.cell_count_x * sv.cell_count_y)
    /\ particles = EmptyVec
    /\ pc = "idle"
    /\ NoTransients
    /\ NoHistory

\* spawnParticle(pos, radius), between two update calls
SpawnParticle(pos, radius) ==
    /\ pc = "idle"
    /\ Size(particles) < MaxParticles
    /\ particles' = PushBack(particles, NewParticle(pos, radius))
    /\ UNCHANGED <<solverVars, grid, hashVars, kernelVars, pc, loopVars, histVars>>

\* update(dt): entry, step_dt = dt / sub_steps, i = 0
Update(t) ==
    /\ pc = "idle"
    /\ updates < MaxUpdates
    /\ dt' = t
    /\ step_dt' = Quot(t, sub_steps)
    /\ i' = 0
    /\ updates' = updates + 1
    /\ pc' = IF 0 < sub_steps THEN "gravity" ELSE "idle"
    /\ log' = <<>>
    /\ UNCHANGED <<solverVars, particles, grid, hashVars, kernelVars, before, calls>>

Logged(phase, arg) == Append(log, [phase |-> phase, sub_step |-> i, arg |-> arg])

\* this->applyGravity()
ApplyGravity ==
    /\ pc = "gravity"
    /\ particles' = ApplyGravityAll(particles)
    /\ pc' = "integrate"
    /\ log' = Logged("gravity", 0)
    /\ UNCHANGED <<solverVars, grid, hashVars, kernelVars, loopVars, before, calls>>

\* this->updateParticles(step_dt)
UpdateParticles ==
    /\ pc = "integrate"
    /\ particles' = UpdateParticlesAll(particles, step_dt)
    /\ pc' = "constrain"
    /\ log' = Logged("integrate", step_dt)
    /\ UNCHANGED <<solverVars, grid, hashVars, kernelVars, loopVars, before, calls>>

\* this->constrainParticlesToBoxContainer(screen_size, screen_size / 2.0f)
ConstrainParticlesToBoxContainer ==
    /\ pc = "constrain"
    /\ particles' = ConstrainAll(particles, screen_size, screen_size)
    /\ pc' = "hash"
    /\ log' = Logged("constrain", 0)
    /\ UNCHANGED <<solverVars, grid, hashVars, kernelVars, loopVars, before, calls>>

\* positions_arr, as uploaded to slot 0
PositionsOf(ps) == [k \in DOMAIN ps |-> ps[k].pos]

\* solveParticleCollisionsSpatialHash up to the dispatch: the hash is built
\* and the buffers are uploaded.  With an index outside count_arr the
\* behaviour is undefined: the run faults, or goes on.
HashAndUpload ==
    /\ pc = "hash"
    /\ LET built == BuildHash(particles, cell_width, cell_count_x, cell_count_y)
       IN  /\ count_arr' = built.count
           /\ particles_grouped' = built.grouped
    /\ positions_ssbo' = PositionsOf(particles)
    /\ \/ pc' = "dispatch"
       \/ /\ ~HashInBounds(particles, cell_width, cell_count_x,
                           ZeroVec(cell_count_x * cell_count_y + 1))
          /\ pc' = "fault"
    /\ log' = Logged("collide", 0)
    /\ UNCHANGED <<solverVars, particles, grid, lanes, loopVars, before, calls>>

\* glDispatchCompute: one lane per particle starts
Dispatch ==
    /\ pc = "dispatch"
    /\ lanes' = DOMAIN particles
    /\ pc' = "barrier"
    /\ UNCHANGED <<solverVars, particles, grid, hashVars, positions_ssbo,
                   loopVars, histVars>>

\* One lane of the kernel runs to its end
Lane(k) ==
    /\ k \in lanes
    /\ positions_ssbo' = LaneRun(positions_ssbo, particles, k, cell_width,
                                 cell_count_x, cell_count_y, count_arr,
                                 particles_grouped)
    /\ lanes' = lanes \ {k}
    /\ UNCHANGED <<solverVars, particles, grid, hashVars, pc, loopVars, histVars>>

\* A barrier that lets the host go on while lanes are still writing
MemoryBarrierNoWait ==
    /\ pc = "barrier"
    /\ pc' = "readback"
    /\ UNCHANGED <<solverVars, particles, grid, hashVars, kernelVars, loopVars,
                   histVars>>

\* glMemoryBarrier: passed once every lane's writes are complete
MemoryBarrier ==
    /\ pc = "barrier"
    /\ lanes = {}
    /\ pc' = "readback"
    /\ UNCHANGED <<solverVars, particles, grid, hashVars, kernelVars, loopVars,
                   histVars>>

\* glGetBufferSubData and "Update actual positions"; then i++ and the loop test
Readback ==
    /\ pc = "readback"
    /\ particles' = [k \in DOMAIN particles |->
                        [particles[k] EXCEPT !.pos = positions_ssbo[k]]]
    /\ i' = i + 1
    /\ pc' = IF i + 1 < sub_steps THEN "gravity" ELSE "idle"
    /\ log' = Logged("resolved", Cardinality(lanes))
    /\ UNCHANGED <<solverVars, grid, hashVars, kernelVars, dt, step_dt, updates,
                   before, calls>>

Next ==
    \/ \E pos \in SpawnPositions, radius \in SpawnRadii : SpawnParticle(pos, radius)
    \/ \E t \in DtChoices : Update(t)
    \/ ApplyGravity
    \/ UpdateParticles
    \/ ConstrainParticlesToBoxContainer
    \/ HashAndUpload
    \/ Dispatch
    \/ \E k \in lanes : Lane(k)
    \/ MemoryBarrier
    \/ Readback

Spec == Init /\ [][Next]_vars

----------------------------------------------------------------------------
(* Properties of the update loop *)

\* The container update() constrains to
box_left == BoxLo(screen_size.x, screen_size.x)
box_right == BoxHi(screen_size.x, screen_size.x)
box_bottom == BoxLo(screen_size.y, screen_size.y)
box_top == BoxHi(screen_size.y, screen_size.y)

InsideContainer(p) ==
    /\ box_left <= p.pos.x - p.radius
    /\ p.pos.x + p.radius <= box_right
    /\ box_bottom <= p.pos.y - p.radius
    /\ p.pos.y + p.radius <= box_top

\* A sub-step of the running update has just ended
AtSubStepBoundary == log # <<>> /\ log[Len(log)].phase = "resolved"

PhaseOrder == <<"gravity", "integrate", "constrain", "collide", "resolved">>

\* C1: every update(dt) runs exactly 8 sub-steps, each integrating with step
\* time dt/8; in every sub-step the phases run in the order gravity,
\* integrate, constrain, resolve collisions, and a sub-step's collision pass
\* has ended before the next sub-step's gravity: the phases logged by a call
\* are at all times a prefix of that schedule, and the whole schedule when
\* the call returns.
C1_EightOrderedSubSteps ==
    /\ Len(log) <= 5 * 8
    /\ \A k \in 1..Len(log) :
          /\ log[k].phase = PhaseOrder[((k - 1) % 5) + 1]
          /\ log[k].sub_step = (k - 1) \div 5
          /\ log[k].phase = "integrate" => 8 * log[k].arg = dt
    /\ (pc = "idle" /\ updates > 0) => Len(log) = 5 * 8

\* C1 witness: an update call has returned after moving a particle
C1_UpdateReturned ==
    /\ pc = "idle"
    /\ updates > 0
    /\ Len(log) = 5 * 8
    /\ \E k \in DOMAIN particles : particles[k].pos # particles[k].prev_pos

\* C2: at every sub-step boundary every particle lies inside the container.
C2_InsideAtSubStepBoundary ==
    AtSubStepBoundary => \A k \in DOMAIN particles : InsideContainer(particles[k])

\* floor(c / cell_width), cell_width > 0
FloorCell(c) == c \div cell_width

\* C3: once the hash is built, for every cell h the grouped slots
\* [count_arr[h], count_arr[h + 1]) hold exactly the particles whose centre
\* cell floor(pos / cell_width), linearised, is h; every particle index is in
\* particles_grouped exactly once, and the bucket sizes sum to the particle
\* count.
C3_BucketsHoldTheirCells ==
    pc = "dispatch" =>
        /\ \A h \in 0..(cell_count_x * cell_count_y - 1) :
              {particles_grouped[s] : s \in count_arr[h]..(count_arr[h + 1] - 1)}
                = {k \in DOMAIN particles :
                      FloorCell(particles[k].pos.y) * cell_count_x
                          + FloorCell(particles[k].pos.x) = h}
        /\ \A k \in DOMAIN particles :
              Cardinality({s \in DOMAIN particles_grouped :
                              particles_grouped[s] = k}) = 1
        /\ count_arr[cell_count_x * cell_count_y] - count_arr[0] = Size(particles)

C10_CellIndexInBounds ==
    pc = "hash" =>
        \A k \in DOMAIN particles :
            /\ CellX(particles[k], cell_width) \in 0..(cell_count_x - 1)
            /\ CellY(particles[k], cell_width) \in 0..(cell_count_y - 1)
            /\ CellIndex(particles[k], cell_width, cell_count_x)
                 \in 0..(cell_count_x * cell_count_y - 1)

----------------------------------------------------------------------------
(* collideTwoParticles on its own: two particles, one call *)

\* A solver constructed for the given screen and largest radius, holding the
\* given particles, ready for one operation
ReadyWith(ps, size, radius) ==
    /\ \E sv \in Constructed(size, radius) :
          /\ screen_size = sv.screen_size
          /\ cell_width = sv.cell_width
          /\ cell_count_x = sv.cell_count_x
          /\ cell_count_y = sv.cell_count_y
          /\ grid = EmptyGrid(sv.cell_count_x * sv.cell_count_y)
    /\ particles = ps
    /\ pc = "ready"
    /\ NoTransients
    /\ NoHistory

CollideCoords == {100 + 4 * k : k \in (-MaxCoord)..MaxCoord}
CollideRadii == {5, 20}

\* A 200 x 200 screen, largest particle radius 20; the second particle is at
\* the centre, the first anywhere on a lattice around it
InitCollide ==
    \E x \in CollideCoords, y \in CollideCoords, r1 \in CollideRadii,
       r2 \in CollideRadii :
        ReadyWith(PushBack(PushBack(EmptyVec, NewParticle(Vec(x, y), r1)),
                           NewParticle(Vec(100, 100), r2)),
                  Vec(200, 200), 20)

\* this->collideTwoParticles(p1_i, p2_i)
Collide(p1_i, p2_i) ==
    /\ pc = "ready"
    /\ particles' = CollideTwoParticles(particles, p1_i, p2_i)
    /\ before' = particles
    /\ calls' = <<<<p1_i, p2_i>>>>
    /\ pc' = "collided"
    /\ UNCHANGED <<solverVars, grid, hashVars, kernelVars, loopVars, log>>

NextCollide == \E p1_i \in DOMAIN particles, p2_i \in DOMAIN particles : Collide(p1_i, p2_i)

SpecCollide == InitCollide /\ [][NextCollide]_vars

----------------------------------------------------------------------------
(* constrainParticlesToBoxContainer on its own: one particle, one pass *)

BoxXs == (-MaxCoord)..(12 + MaxCoord)
BoxYs == {-3, 1, 6, 11, 14}
BoxRadii == {1, 2, 7}
\* Displacements are multiples of 4, which e = 0.25 scales without rounding
BoxDisplacements == {-8, -4, 0, 4}

\* A 12 x 12 screen, largest particle radius 7, one moving particle
InitBox ==
    \E x \in BoxXs, y \in BoxYs, r \in BoxRadii, dx \in BoxDisplacements,
       dy \in BoxDisplacements :
        ReadyWith(PushBack(EmptyVec,
                      [NewParticle(Vec(x, y), r) EXCEPT !.prev_pos = Vec(x - dx, y - dy)]),
                  Vec(12, 12), 7)

\* this->constrainParticlesToBoxContainer(screen_size, screen_size / 2.0f)
ConstrainOnce ==
    /\ pc = "ready"
    /\ particles' = ConstrainAll(particles, screen_size, screen_size)
    /\ before' = particles
    /\ pc' = "constrained"
    /\ UNCHANGED <<solverVars, grid, hashVars, kernelVars, loopVars, log, calls>>

NextBox == ConstrainOnce

SpecBox == InitBox /\ [][NextBox]_vars

----------------------------------------------------------------------------
(* The constructor on its own *)

InitCtor ==
    /\ screen_size = Vec(0, 0)
    /\ cell_width = 0
    /\ cell_count_x = 0
    /\ cell_count_y = 0
    /\ grid = EmptyGrid(0)
    /\ particles = EmptyVec
    /\ pc = "new"
    /\ NoTransients
    /\ NoHistory

\* PhysicSolver(_screen_size, _largest_particle_radius).  grid.resize throws
\* for a size that is negative as an int (huge as a size_t) or beyond what
\* can be allocated; otherwise the solver is constructed.
Construct(_screen_size, _largest_particle_radius) ==
    /\ pc = "new"
    /\ \E sv \in Constructed(_screen_size, _largest_particle_radius) :
          LET n == sv.cell_count_x * sv.cell_count_y
          IN  IF n < 0 \/ n > 32768
              THEN /\ pc' = "threw"
                   /\ UNCHANGED <<solverVars, grid>>
              ELSE /\ screen_size' = sv.screen_size
                   /\ cell_width' = sv.cell_width
                   /\ cell_count_x' = sv.cell_count_x
                   /\ cell_count_y' = sv.cell_count_y
                   /\ grid' = EmptyGrid(n)
                   /\ pc' = "constructed"
    /\ before' = <<_screen_size, _largest_particle_radius>>
    /\ UNCHANGED <<particles, hashVars, kernelVars, loopVars, log, calls>>

CtorDims == (-1)..MaxCoord
CtorRadii == (-1)..2

NextCtor ==
    \E w \in CtorDims, h \in CtorDims, r \in CtorRadii : Construct(Vec(w, h), r)

SpecCtor == InitCtor /\ [][NextCtor]_vars

----------------------------------------------------------------------------
(* The fixed-grid strategy on its own: two particles, one pass *)

GridXs == {-12, 8, 12, 16, 20, 24}
GridYs == {8, 16, 24}
GridRadii == {4, 8}

\* Two particles with distinct centres (coincident centres are the case
\* examined under SpecCollide)
InitGrid ==
    \E x1 \in GridXs, y1 \in GridYs, r1 \in GridRadii,
       x2 \in GridXs, y2 \in GridYs, r2 \in GridRadii :
        /\ <<x1, y1>> # <<x2, y2>>
        /\ ReadyWith(PushBack(PushBack(EmptyVec, NewParticle(Vec(x1, y1), r1)),
                              NewParticle(Vec(x2, y2), r2)),
                     Vec(32, 32), 8)

\* The values the two casts of the loop body can give for particle p
CastsOf(p) ==
    UintCast(Quot(p.pos.x - p.radius, cell_width))
        \X UintCast(Quot(p.pos.y - p.radius, cell_width))

RECURSIVE AssignFrom(_, _, _)
AssignFrom(gr, casts, p_i) ==
    IF p_i >= Size(particles) THEN gr
    ELSE AssignFrom(PushAll(gr, CellsOf(particles[p_i], casts[p_i][1], casts[p_i][2],
                                        cell_width, cell_count_x, cell_count_y),
                            1, p_i),
                    casts, p_i + 1)

\* Every grid[...] the pass indexes is a cell of the grid
AssignInBounds(casts) ==
    \A p_i \in DOMAIN particles :
        LET cells == CellsOf(particles[p_i], casts[p_i][1], casts[p_i][2],
                             cell_width, cell_count_x, cell_count_y)
        IN  \A n \in 1..Len(cells) : cells[n] \in DOMAIN grid

\* this->assignParticlesToFixedGrid(); an index outside the grid faults
AssignParticlesToFixedGrid ==
    /\ pc = "ready"
    /\ \E casts \in [DOMAIN particles -> UNION {CastsOf(particles[k]) : k \in DOMAIN particles}] :
          /\ \A k \in DOMAIN particles : casts[k] \in CastsOf(particles[k])
          /\ IF AssignInBounds(casts)
             THEN /\ grid' = AssignFrom(grid, casts, 0)
                  /\ pc' = "assigned"
             ELSE /\ grid' = grid
                  /\ pc' = "fault"
    /\ before' = particles
    /\ UNCHANGED <<solverVars, particles, hashVars, kernelVars, loopVars, log, calls>>

\* this->solveGridCollisionsInRange(0, cell_count_x, 0, cell_count_y)
SolveGridCollisionsInRange ==
    /\ pc = "assigned"
    /\ LET st == SolveCells([ps |-> particles, calls |-> <<>>], grid,
                            RangeCells(0, cell_count_x, 0, cell_count_y, cell_count_x), 1)
       IN  /\ particles' = st.ps
           /\ calls' = st.calls
    /\ grid' = EmptyGrid(cell_count_x * cell_count_y)
    /\ pc' = "solved"
    /\ UNCHANGED <<solverVars, hashVars, kernelVars, loopVars, log, before>>

NextGrid ==
    \/ AssignParticlesToFixedGrid
    \/ SolveGridCollisionsInRange

SpecGrid == InitGrid /\ [][NextGrid]_vars

----------------------------------------------------------------------------
(* Properties of the stand-alone operations *)

\* How often the pass called collideTwoParticles on the pair {a, b}
CallsOn(a, b) ==
    Cardinality({n \in 1..Len(calls) : {calls[n][1], calls[n][2]} = {a, b}})

\* C4: one fixed-grid pass applies collideTwoParticles exactly once to each
\* unordered pair of distinct particles that overlap.
C4_EachOverlappingPairOnce ==
    pc = "solved" =>
        \A a \in DOMAIN before, b \in DOMAIN before :
            (a < b /\ Overlapping(before[a], before[b])) => CallsOn(a, b) = 1

\* What one pass must have done to one axis: c, q the coordinate and the
\* previous coordinate before the pass, c2, q2 after it
ReflectedBelow(c, q, c2, q2, radius, lo, hi) ==
    LET d == c + radius - hi
    IN  d > 0 => /\ c2 = c - 2 * d
                 /\ 100 * (c2 - q2) = -(25 * (c - q))
                 /\ c2 + radius <= hi

ReflectedAbove(c, q, c2, q2, radius, lo, hi) ==
    LET d == lo - (c - radius)
    IN  (d > 0 /\ c + radius <= hi) => /\ c2 = c + 2 * d
                                      /\ 100 * (c2 - q2) = -(25 * (c - q))
                                      /\ c2 - radius >= lo

Untouched(c, q, c2, q2, radius, lo, hi) ==
    (c + radius <= hi /\ c - radius >= lo) => (c2 = c /\ q2 = q)

\* C5: one pass moves a particle that exceeds the right edge by d > 0 to
\* pos.x - 2d, leaves it the x-displacement scaled by 0.25 and reversed, and
\* has pos.x + radius <= box_right afterwards; the left, top and bottom edges
\* are handled the same way, and each axis is corrected whatever the other
\* axis needs.
C5_BoxReflection ==
    pc = "constrained" =>
        \A k \in DOMAIN particles :
            LET o == before[k]
                n == particles[k]
            IN  /\ ReflectedBelow(o.pos.x, o.prev_pos.x, n.pos.x, n.prev_pos.x,
                                  o.radius, box_left, box_right)
                /\ ReflectedAbove(o.pos.x, o.prev_pos.x, n.pos.x, n.prev_pos.x,
                                  o.radius, box_left, box_right)
                /\ Untouched(o.pos.x, o.prev_pos.x, n.pos.x, n.prev_pos.x,
                             o.radius, box_left, box_right)
                /\ ReflectedBelow(o.pos.y, o.prev_pos.y, n.pos.y, n.prev_pos.y,
                                  o.radius, box_bottom, box_top)
                /\ ReflectedAbove(o.pos.y, o.prev_pos.y, n.pos.y, n.prev_pos.y,
                                  o.radius, box_bottom, box_top)
                /\ Untouched(o.pos.y, o.prev_pos.y, n.pos.y, n.prev_pos.y,
                             o.radius, box_bottom, box_top)
                /\ n.radius = o.radius

\* C5 witness: a moving particle past the right edge and below the bottom
\* edge has been reflected on both axes
C5_CornerReflected ==
    /\ pc = "constrained"
    /\ \E k \in DOMAIN particles :
          /\ before[k].pos.x + before[k].radius > box_right
          /\ before[k].pos.y - before[k].radius < box_bottom
          /\ before[k].pos.x # before[k].prev_pos.x
          /\ before[k].pos.y # before[k].prev_pos.y
          /\ particles[k].pos.x < before[k].pos.x
          /\ particles[k].pos.y > before[k].pos.y

\* One component of a displacement s is (share/(r1+r2)) * 0.75 * (r1+r2-d) *
\* (comp/d), to within the rounding of one quantum
IsShare(s, share, sumR, d, comp) ==
    Abs(s * (sumR * 100 * d) - share * 75 * (sumR - d) * comp) < sumR * 100 * d

\* C6: collideTwoParticles on two distinct particles at distance 0 < d <
\* r1 + r2 moves particle 1 along n = (pos1 - pos2)/d by (r2/(r1+r2)) * 0.75 *
\* (r1 + r2 - d) and particle 2 along -n by (r1/(r1+r2)) * 0.75 * (r1 + r2 - d),
\* so the displacements are in the ratio r2 : r1; with d >= r1 + r2, or with
\* equal indices, both positions stay as they were.
C6_PairwiseDisplacement ==
    pc = "collided" =>
        LET p1_i == calls[1][1]
            p2_i == calls[1][2]
            p1 == before[p1_i]
            p2 == before[p2_i]
            axis == Vec(p1.pos.x - p2.pos.x, p1.pos.y - p2.pos.y)
            d == Length(axis)
            sumR == p1.radius + p2.radius
            m1 == Vec(particles[p1_i].pos.x - p1.pos.x, particles[p1_i].pos.y - p1.pos.y)
            m2 == Vec(particles[p2_i].pos.x - p2.pos.x, particles[p2_i].pos.y - p2.pos.y)
        IN  /\ (p1_i # p2_i /\ 0 < d /\ d < sumR) =>
                  /\ IsShare(m1.x, p2.radius, sumR, d, axis.x)
                  /\ IsShare(m1.y, p2.radius, sumR, d, axis.y)
                  /\ IsShare(-m2.x, p1.radius, sumR, d, axis.x)
                  /\ IsShare(-m2.y, p1.radius, sumR, d, axis.y)
                  /\ Abs(p1.radius * m1.x + p2.radius * m2.x) < sumR
                  /\ Abs(p1.radius * m1.y + p2.radius * m2.y) < sumR
            /\ (p1_i = p2_i \/ d >= sumR) => PositionsOf(particles) = PositionsOf(before)
            /\ \A k \in DOMAIN particles :
                  /\ particles[k].prev_pos = before[k].prev_pos
                  /\ particles[k].radius = before[k].radius

\* C6 witness: a particle of radius 20 and one of radius 5 overlapped, and
\* the larger one was moved less
C6_LargerMovedLess ==
    /\ pc = "collided"
    /\ calls[1][1] # calls[1][2]
    /\ before[0].radius = 20
    /\ before[1].radius = 5
    /\ particles[0].pos.y = before[0].pos.y
    /\ particles[0].pos.x # before[0].pos.x
    /\ 2 * Abs(particles[0].pos.x - before[0].pos.x)
          < Abs(particles[1].pos.x - before[1].pos.x)

\* C7: collideTwoParticles on two distinct particles with coincident centres
\* divides by nothing that is zero: both positions are finite afterwards.
C7_CoincidentCentresStayFinite ==
    (/\ pc = "collided"
     /\ calls[1][1] # calls[1][2]
     /\ before[0].pos = before[1].pos)
        => \A k \in DOMAIN particles : ~particles[k].nan

\* C9: the constructor rejects a largest_particle_radius <= 0 and a
\* non-positive screen dimension: every solver it produces has a positive
\* cell width and positive cell counts.
C9_BadConfigurationRejected ==
    pc = "constructed" =>
        /\ cell_width > 0
        /\ cell_count_x > 0
        /\ cell_count_y > 0
        /\ before[1].x > 0
        /\ before[1].y > 0
        /\ before[2] > 0

====
